---- MODULE Spec2Model ----
(***************************************************************************)
(* PixelPruner (ImagePrepApp, src/app.py): the session object, the Gradio  *)
(* components its handlers read and write, and the crop output directory.  *)
(*                                                                         *)
(* Number conventions.  Zoom values are kept in tenths (10 is zoom 1.0),   *)
(* because the slider moves in steps of 0.1.  Pixel sizes and coordinates  *)
(* are integers.  Python's float division and int() are modelled by        *)
(* PyIntDivZoom and PyIntScale below, including the rounding of IEEE-754   *)
(* doubles.  File names are sequences of one-character strings so that     *)
(* str.startswith, str.lower and str.endswith can be computed.             *)
(***************************************************************************)
EXTENDS Integers, Sequences, FiniteSets, TLC

VARIABLES
    images,                 \* self.images: sequence of loaded image files
    current_index,          \* self.current_index
    current_zoom,           \* self.current_zoom, in tenths
    current_crop_width,     \* self.current_crop_width
    current_crop_height,    \* self.current_crop_height
    selected_for_deletion,  \* self.selected_for_deletion: set of file names
    output_dir,             \* files of self.output_dir: file name -> content
    zoom_slider,            \* gr.Slider value, in tenths
    crop_preset,            \* gr.Dropdown value
    custom_width,           \* gr.Number "Custom Width"
    custom_height,          \* gr.Number "Custom Height"
    current_crop_width_field,   \* hidden gr.Number current_crop_width
    current_crop_height_field,  \* hidden gr.Number current_crop_height
    display_size_dropdown,  \* gr.Dropdown "Display Size"
    current_image,          \* gr.Image "Click to Crop": None or the display image
    cropped_image,          \* gr.Image "Cropped Result": None or the raster
    crop_status,            \* gr.Textbox written by process_crop_click
    save_status,            \* gr.Textbox written by save_crop
    download_tab,           \* whether the download tab is visible
    delete_status,          \* gr.Textbox written by the selection and delete handlers
    load_status,            \* gr.Textbox written by load_images_from_folder
    utilities,              \* the utilities' folders and the last utilities run
    click                   \* arguments and locals of the last process_crop_click call

sessionVars == <<images, current_index, current_zoom, current_crop_width,
                 current_crop_height, selected_for_deletion>>
widgetVars == <<zoom_slider, crop_preset, custom_width, custom_height,
                current_crop_width_field, current_crop_height_field,
                display_size_dropdown, current_image>>
cropVars == <<cropped_image, crop_status, click>>
storeVars == <<output_dir, save_status, download_tab, delete_status>>
utilityVars == <<utilities>>
vars == <<sessionVars, widgetVars, cropVars, storeVars, load_status, utilityVars>>

----------------------------------------------------------------------------
(* Python values *)

None == [type |-> "None"]

Min(a, b) == IF a <= b THEN a ELSE b
Max(a, b) == IF a >= b THEN a ELSE b
Abs(a) == IF a >= 0 THEN a ELSE -a

RECURSIVE Pow2Below(_)
\* The largest power of two that is <= q, for q >= 1.
Pow2Below(q) == IF q < 2 THEN 1 ELSE 2 * Pow2Below(q \div 2)

\* A double computation whose exact value falls short of the integer q by
\* q * shortfallMilli / 1000 units of 2^-53 rounds (to nearest) to a double
\* below q exactly when the shortfall exceeds half the spacing of the doubles
\* just below q: Pow2Below(q) * 2^-53, or half of that when q is a power of two.
RoundsBelow(q, shortfallMilli) ==
    LET p == Pow2Below(q)
    IN  2 * q * shortfallMilli > 1000 * (IF q = p THEN p ELSE 2 * p)

\* (fl(z) - z) / fl(z) in thousandths of 2^-53, for z = zt / 10 and fl(z) the
\* double nearest to z: the double a slider position zt / 10 is.
ZoomDoubleErrMilli ==
    <<500, 500, -333, 500, 0, -333, -571, 500, 222, 0,
      727, -333, 308, -571, 0, 500, -235, 222, -421, 0,
      381, 727, -696, -333, 0, 308, 593, -571, -276, 0>>

\* int(base / zoom_value) for an integer base >= 0 and zoom_value = zt / 10 with
\* zt in 1..30.  The exact quotient is 10 * base / zt; the double quotient
\* differs from it only by rounding, which changes int() only when the exact
\* quotient is an integer and the double falls below it.
PyIntDivZoom(base, zt) ==
    LET q == (10 * base) \div zt
        exact == (10 * base) % zt = 0
    IN  IF exact /\ q > 0 /\ RoundsBelow(q, ZoomDoubleErrMilli[zt])
        THEN q - 1 ELSE q

\* -(fl(o / d) - o / d) / (o / d) in thousandths of 2^-53 for the
\* original / display size pairs of the images modelled (0 where the quotient
\* is a double).
ScaleDoubleShortfallMilli(o, d) ==
    IF o % d = 0 THEN 0
    ELSE CASE <<o, d>> = <<300, 600>> -> 0
           [] <<o, d>> = <<300, 750>> -> -500
           [] <<o, d>> = <<800, 300>> -> 500
           [] <<o, d>> = <<800, 480>> -> -400
           [] <<o, d>> = <<800, 600>> -> 500
           [] <<o, d>> = <<800, 750>> -> 125
           [] <<o, d>> = <<1000, 300>> -> -400
           [] <<o, d>> = <<1000, 600>> -> -400
           [] <<o, d>> = <<1000, 750>> -> 500
           [] <<o, d>> = <<1000, 937>> -> 680
           [] <<o, d>> = <<1805, 451>> -> 541
           [] <<o, d>> = <<1805, 564>> -> 514
           [] <<o, d>> = <<1805, 705>> -> -111
           [] <<o, d>> = <<1805, 846>> -> -111
           [] <<o, d>> = <<1920, 600>> -> -500
           [] <<o, d>> = <<1920, 750>> -> -188
           [] <<o, d>> = <<1920, 900>> -> 125

\* int(c * scale) with scale = o / d computed in doubles; int() truncates
\* towards zero.
PyIntScale(c, o, d) ==
    LET mag == Abs(c * o)
        q == mag \div d
        exact == mag % d = 0
        r == IF exact /\ q > 0 /\ RoundsBelow(q, ScaleDoubleShortfallMilli(o, d))
             THEN q - 1 ELSE q
    IN  IF c * o >= 0 THEN r ELSE -r

----------------------------------------------------------------------------
(* Program constants *)

crop_presets ==
    ("512x512" :> <<512, 512>>) @@ ("768x768" :> <<768, 768>>) @@
    ("1024x1024" :> <<1024, 1024>>) @@ ("2048x2048" :> <<2048, 2048>>) @@
    ("512x768" :> <<512, 768>>) @@ ("768x512" :> <<768, 512>>) @@
    ("Custom" :> <<0, 0>>)

display_sizes ==
    ("Small (600x480)" :> <<600, 480>>) @@ ("Medium (800x600)" :> <<800, 600>>) @@
    ("Large (1000x750)" :> <<1000, 750>>) @@ ("X-Large (1200x900)" :> <<1200, 900>>) @@
    ("Original Size" :> <<0, 0>>)

DefaultZoom == 10
DefaultCropWidth == 512
DefaultCropHeight == 512
ClickFallbackSize == 100
DimensionFallback == 512
SliderMinimum == 1
SliderMaximum == 30
\* Gradio's Slider(minimum=0.1, maximum=3.0, step=0.1), in tenths.
SliderSteps == SliderMinimum..SliderMaximum

----------------------------------------------------------------------------
(* Uploaded files: name, pixel size, colour mode, and whether PIL can decode  *)
(* the file.                                                                  *)

File(name, w, h, mode, ok) ==
    [name |-> name, size |-> <<w, h>>, mode |-> mode, ok |-> ok]

FileA == File(<<"a", ".", "p", "n", "g">>, 1000, 800, "RGB", TRUE)
FileAB == File(<<"a", "b", ".", "J", "P", "G">>, 300, 300, "RGB", TRUE)
FileD == File(<<"d", ".", "b", "m", "p">>, 1805, 1920, "RGB", TRUE)
\* A PNG with an alpha channel.
FileRgba == File(<<"r", ".", "p", "n", "g">>, 1000, 800, "RGBA", TRUE)
\* A file PIL cannot decode, and a file that is no image.
FileBad == File(<<"x", ".", "p", "n", "g">>, 0, 0, "", FALSE)
FileTxt == File(<<"a", ".", "t", "x", "t">>, 0, 0, "", FALSE)

----------------------------------------------------------------------------
(* Python strings, as sequences of characters *)

\* str.lower, on the characters the file names use.
LowerChar(c) ==
    CASE c = "J" -> "j" [] c = "P" -> "p" [] c = "G" -> "g" [] c = "N" -> "n"
      [] OTHER -> c

Lower(str) == [i \in 1..Len(str) |-> LowerChar(str[i])]

StartsWith(str, prefix) ==
    Len(prefix) <= Len(str) /\ SubSeq(str, 1, Len(prefix)) = prefix

EndsWith(str, suffix) ==
    /\ Len(suffix) <= Len(str)
    /\ SubSeq(str, Len(str) - Len(suffix) + 1, Len(str)) = suffix

\* str.endswith(tuple)
EndsWithAny(str, suffixes) == \E suffix \in suffixes : EndsWith(str, suffix)

supported_formats ==
    {<<".", "p", "n", "g">>, <<".", "j", "p", "g">>, <<".", "j", "p", "e", "g">>,
     <<".", "g", "i", "f">>, <<".", "b", "m", "p">>, <<".", "t", "i", "f", "f">>,
     <<".", "w", "e", "b", "p">>}

\* PIL's Image.thumbnail size for an image of size <<w, h>> and a box
\* <<mx, my>>: unchanged when the image fits, else the box side that binds is
\* kept and the other side is the floor or the ceiling of the proportional
\* length, whichever keeps the aspect ratio closer (the floor on a tie), and
\* at least 1.
ThumbnailSize(w, h, mx, my) ==
    IF mx >= w /\ my >= h THEN <<w, h>>
    ELSE IF mx * h >= w * my
    THEN LET f == (my * w) \div h
             c == IF (my * w) % h = 0 THEN f ELSE f + 1
             n == IF Abs(w * my - f * h) <= Abs(w * my - c * h) THEN f ELSE c
         IN  <<Max(n, 1), my>>
    ELSE LET f == (mx * h) \div w
             c == IF (mx * h) % w = 0 THEN f ELSE f + 1
             n == IF f = 0 THEN f
                  ELSE IF Abs(w * f - mx * h) * c <= Abs(w * c - mx * h) * f
                       THEN f ELSE c
         IN  <<mx, Max(n, 1)>>

\* Whether PIL writes an image of this mode as JPEG.
JpegWritable(mode) == mode \in {"RGB", "L", "CMYK", "1"}

\* create_display_image: the path returned ("display" for the file written to
\* display_dir, "original" for image_path itself) and the size returned.
create_display_image(file, display_size_name) ==
    IF ~file.ok \/ ~JpegWritable(file.mode)
    THEN [path |-> "original", size |-> <<0, 0>>]
    ELSE IF display_size_name = "Original Size"
    THEN [path |-> "display", size |-> file.size]
    ELSE [path |-> "display",
          size |-> ThumbnailSize(file.size[1], file.size[2],
                                 display_sizes[display_size_name][1],
                                 display_sizes[display_size_name][2])]

\* Image.open(display_path) as the handlers do after create_display_image:
\* the image shown in current_image, or "raise" when PIL cannot open it.
OpenDisplayImage(file, display_size_name) ==
    LET made == create_display_image(file, display_size_name)
    IN  IF made.path = "display"
        THEN [type |-> "Image", size |-> made.size, of |-> file.name]
        ELSE IF file.ok
        THEN [type |-> "Image", size |-> file.size, of |-> file.name]
        ELSE [type |-> "raise"]

----------------------------------------------------------------------------
(* process_crop_click *)

\* base_crop_width, base_crop_height
BaseCrop(preset, cw, ch) ==
    IF preset = "Custom"
    THEN <<IF cw > 0 THEN cw ELSE ClickFallbackSize,
           IF ch > 0 THEN ch ELSE ClickFallbackSize>>
    ELSE crop_presets[preset]

\* The zoom model the code's comment warns against: zoom multiplies the sample.
EffectiveCrop_Multiply(base, zoom_value) == (base * zoom_value) \div 10

\* effective_crop_width = int(base_crop_width / zoom_value)
EffectiveCrop(base, zoom_value) == PyIntDivZoom(base, zoom_value)

\* click_x, click_y = evt.index[0], evt.index[1] if evt.index else 0, 0
ClickPoint(index) == IF index = <<>> THEN <<0, 0>> ELSE index

\* orig_click_x = int(click_x * scale_x), scale_x = orig_width / display_width
OrigClick(c, orig, display) == PyIntScale(c, orig, display)

\* An origin that is not held at 0 from below.
CropOrigin_NoFloor(orig_click, effective, orig) ==
    Min(orig_click - effective \div 2, orig - effective)

\* An origin that puts the sample's corner, not its centre, on the click.
CropOrigin_Corner(orig_click, effective, orig) ==
    Max(0, Min(orig_click, orig - effective))

\* crop_x = max(0, min(orig_click_x - effective_crop_width // 2,
\*                     orig_width - effective_crop_width))
CropOrigin(orig_click, effective, orig) ==
    Max(0, Min(orig_click - effective \div 2, orig - effective))

\* A crop box that is not cut down to the image.
ActualCrop_Unclamped(effective, orig, origin) == effective

\* actual_crop_width = min(effective_crop_width, orig_width - crop_x)
ActualCrop(effective, orig, origin) == Min(effective, orig - origin)

\* The locals of process_crop_click up to the crop box, for a call that got
\* past Image.open.
CropLocals(image, preset, cw, ch, zoom_value, index, file) ==
    LET base == BaseCrop(preset, cw, ch)
        ew == EffectiveCrop(base[1], zoom_value)
        eh == EffectiveCrop(base[2], zoom_value)
        pt == ClickPoint(index)
        ox == OrigClick(pt[1], file.size[1], image.size[1])
        oy == OrigClick(pt[2], file.size[2], image.size[2])
        x == CropOrigin(ox, ew, file.size[1])
        y == CropOrigin(oy, eh, file.size[2])
    IN  [base_crop_width |-> base[1], base_crop_height |-> base[2],
         effective_crop_width |-> ew, effective_crop_height |-> eh,
         click_x |-> pt[1], click_y |-> pt[2],
         orig_width |-> file.size[1], orig_height |-> file.size[2],
         display_width |-> image.size[1], display_height |-> image.size[2],
         orig_click_x |-> ox, orig_click_y |-> oy,
         crop_x |-> x, crop_y |-> y,
         actual_crop_width |-> ActualCrop(ew, file.size[1], x),
         actual_crop_height |-> ActualCrop(eh, file.size[2], y)]

\* The arguments of a call, kept with its locals in the variable click.
\* self.images[i] with Python's indexing: a negative i counts from the end;
\* "raise" stands for IndexError.
PyIndex(list, i) ==
    IF 0 <= i /\ i < Len(list) THEN list[i + 1]
    ELSE IF i < 0 /\ -i <= Len(list) THEN list[Len(list) + i + 1]
    ELSE [type |-> "raise"]

\* The arguments of a call whose zoom_value is given, the other inputs being
\* the values of the components.
CallArgs(zoom_value, index) ==
    [image |-> current_image, crop_preset |-> crop_preset,
     custom_width |-> custom_width, custom_height |-> custom_height,
     zoom_value |-> zoom_value, index |-> index,
     current_index |-> current_index]

\* The arguments the click handler receives from its input components.
CropArgs(index) == CallArgs(zoom_slider, index)

\* What the call leaves in cropped_image, crop_status and click.
CropReturns(image, status, frame) ==
    /\ cropped_image' = image
    /\ crop_status' = status
    /\ click' = frame

\* A crop that forgets the resize: the raster keeps the size of the crop box.
CroppedRaster_NoResize(file, l) ==
    [type |-> "Image", size |-> <<l.actual_crop_width, l.actual_crop_height>>,
     of |-> file.name, mode |-> file.mode,
     box |-> <<l.crop_x, l.crop_y, l.crop_x + l.actual_crop_width,
               l.crop_y + l.actual_crop_height>>]

\* original_image.crop(box).resize((base_crop_width, base_crop_height)): the
\* raster, described by its size, the file and the box it was sampled from.
CroppedRaster(file, l) ==
    [type |-> "Image", size |-> <<l.base_crop_width, l.base_crop_height>>,
     of |-> file.name, mode |-> file.mode,
     box |-> <<l.crop_x, l.crop_y, l.crop_x + l.actual_crop_width,
               l.crop_y + l.actual_crop_height>>]

\* A click body whose except branch leaves the last crop in place instead of
\* returning None.
CropCall_KeepsCrop(zoom_value, index) ==
    IF current_image = None \/ images = <<>>
    THEN CropReturns(None, "No image loaded",
                     [outcome |-> "No image loaded",
                      args |-> CallArgs(zoom_value, index)])
    ELSE IF \/ zoom_value = 0
            \/ PyIndex(images, current_index) = [type |-> "raise"]
            \/ ~PyIndex(images, current_index).ok
    THEN CropReturns(cropped_image, "Error cropping image",
                     [outcome |-> "Error cropping image",
                      args |-> CallArgs(zoom_value, index)])
    ELSE LET file == PyIndex(images, current_index)
             l == CropLocals(current_image, crop_preset, custom_width,
                             custom_height, zoom_value, index, file)
         IN  CropReturns(CroppedRaster(file, l), "Cropped",
                         [outcome |-> "Cropped",
                          args |-> CallArgs(zoom_value, index),
                          locals |-> l])

\* The body of process_crop_click for a given zoom_value.  index is
\* evt.index (<<>> when it is empty).  PIL's answer to resizing an empty crop
\* box is not the program's to decide: the call may return the raster or
\* raise.  Every exception raised after the first test is caught.
CropCall(zoom_value, index) ==
    IF current_image = None \/ images = <<>>
    THEN CropReturns(None, "No image loaded",
                     [outcome |-> "No image loaded",
                      args |-> CallArgs(zoom_value, index)])
    ELSE IF \/ zoom_value = 0
            \/ PyIndex(images, current_index) = [type |-> "raise"]
            \/ ~PyIndex(images, current_index).ok
    THEN CropReturns(None, "Error cropping image",
                     [outcome |-> "Error cropping image",
                      args |-> CallArgs(zoom_value, index)])
    ELSE LET file == PyIndex(images, current_index)
             l == CropLocals(current_image, crop_preset, custom_width,
                             custom_height, zoom_value, index, file)
             empty == l.actual_crop_width = 0 \/ l.actual_crop_height = 0
         IN  \/ CropReturns(CroppedRaster(file, l), "Cropped",
                            [outcome |-> "Cropped",
                             args |-> CallArgs(zoom_value, index),
                             locals |-> l])
             \/ /\ empty
                /\ CropReturns(None, "Error cropping image",
                               [outcome |-> "Error cropping image",
                                args |-> CallArgs(zoom_value, index),
                                locals |-> l])

\* process_crop_click with the zoom slider's value as zoom_value.
CropClick(index) == CropCall(zoom_slider, index)

\* A click handler that also resets the zoom, as the navigation handlers do.
process_crop_click_ResetsZoom(index) ==
    /\ CropClick(index)
    /\ zoom_slider' = DefaultZoom
    /\ current_zoom' = DefaultZoom
    /\ UNCHANGED <<images, current_index, current_crop_width, current_crop_height,
                   selected_for_deletion, crop_preset, custom_width, custom_height,
                   current_crop_width_field, current_crop_height_field,
                   display_size_dropdown, current_image, storeVars, load_status, utilityVars>>

\* The handler of current_image.select: it writes its two outputs and nothing
\* of the session.
process_crop_click(index) ==
    /\ CropClick(index)
    /\ UNCHANGED <<sessionVars, widgetVars, storeVars, load_status, utilityVars>>

\* process_crop_click called with a zoom_value that did not come from the
\* slider; the other arguments are the values of the components.
ProcessCropClickCall(zoom_value, index) ==
    /\ CropCall(zoom_value, index)
    /\ UNCHANGED <<sessionVars, widgetVars, storeVars, load_status, utilityVars>>

----------------------------------------------------------------------------
(* Loading, selecting and navigating *)

\* A filter that compares the extension without lowering the name.
RECURSIVE SupportedFiles_CaseSensitive(_)
SupportedFiles_CaseSensitive(files) ==
    IF files = <<>> THEN <<>>
    ELSE IF EndsWithAny(Head(files).name, supported_formats)
         THEN <<Head(files)>> \o SupportedFiles_CaseSensitive(Tail(files))
         ELSE SupportedFiles_CaseSensitive(Tail(files))

\* [f.name for f in files if f.name.lower().endswith(supported_formats)]
RECURSIVE SupportedFiles(_)
SupportedFiles(files) ==
    IF files = <<>> THEN <<>>
    ELSE IF EndsWithAny(Lower(Head(files).name), supported_formats)
         THEN <<Head(files)>> \o SupportedFiles(Tail(files))
         ELSE SupportedFiles(Tail(files))

\* The handler of files_input.upload.  create_thumbnail catches its own
\* errors, so the handler does not raise.
load_images_from_folder(files) ==
    /\ IF files = <<>>
       THEN /\ load_status' = "No files uploaded"
            /\ UNCHANGED <<images, current_index>>
       ELSE /\ images' = SupportedFiles(files)
            /\ IF images' = <<>>
               THEN /\ load_status' = "No supported image files found"
                    /\ UNCHANGED current_index
               ELSE /\ load_status' = "Successfully loaded"
                    /\ current_index' = 0
    /\ UNCHANGED <<current_zoom, current_crop_width, current_crop_height,
                   selected_for_deletion, widgetVars, cropVars, storeVars,
                   utilityVars>>

\* What a handler that shows images[index] at a display size writes to
\* current_image and zoom_slider; it writes neither when create_display_image's
\* result cannot be opened, or the index is out of range, and the handler raises.
ShowImage(list, index) ==
    LET file == PyIndex(list, index)
        shown == IF file = [type |-> "raise"] THEN file
                 ELSE OpenDisplayImage(file, display_size_dropdown)
    IN  IF shown = [type |-> "raise"]
        THEN UNCHANGED <<zoom_slider, current_image>>
        ELSE /\ current_image' = shown
             /\ zoom_slider' = DefaultZoom

\* A select that forgets to reset the zoom.
select_from_gallery_KeepsZoom(index) ==
    /\ IF index < Len(images)
       THEN /\ current_index' = index
            /\ ShowImage(images, index)
       ELSE /\ current_image' = None
            /\ zoom_slider' = DefaultZoom
            /\ UNCHANGED current_index
    /\ UNCHANGED <<images, current_zoom, current_crop_width, current_crop_height,
                   selected_for_deletion, crop_preset, custom_width, custom_height,
                   current_crop_width_field, current_crop_height_field,
                   display_size_dropdown, cropVars, storeVars, load_status, utilityVars>>

\* The handler of image_gallery.select; index is evt.index.
select_from_gallery(index) ==
    /\ IF index < Len(images)
       THEN /\ current_index' = index
            /\ current_zoom' = DefaultZoom
            /\ ShowImage(images, index)
       ELSE /\ current_image' = None
            /\ zoom_slider' = DefaultZoom
            /\ UNCHANGED <<current_index, current_zoom>>
    /\ UNCHANGED <<images, current_crop_width, current_crop_height,
                   selected_for_deletion, crop_preset, custom_width, custom_height,
                   current_crop_width_field, current_crop_height_field,
                   display_size_dropdown, cropVars, storeVars, load_status, utilityVars>>

\* A navigation that steps without wrapping around.
navigate_image_NoWrap(direction) ==
    /\ IF images = <<>>
       THEN /\ current_image' = None
            /\ zoom_slider' = DefaultZoom
            /\ UNCHANGED <<current_index, current_zoom>>
       ELSE /\ current_index' =
                  IF direction = "next" THEN current_index + 1
                  ELSE IF direction = "prev" THEN current_index - 1
                  ELSE current_index
            /\ current_zoom' = DefaultZoom
            /\ ShowImage(images, current_index')
    /\ UNCHANGED <<images, current_crop_width, current_crop_height,
                   selected_for_deletion, crop_preset, custom_width, custom_height,
                   current_crop_width_field, current_crop_height_field,
                   display_size_dropdown, cropVars, storeVars, load_status, utilityVars>>

\* The handler of prev_btn.click and next_btn.click.
navigate_image(direction) ==
    /\ IF images = <<>>
       THEN /\ current_image' = None
            /\ zoom_slider' = DefaultZoom
            /\ UNCHANGED <<current_index, current_zoom>>
       ELSE /\ current_index' =
                  IF direction = "next" THEN (current_index + 1) % Len(images)
                  ELSE IF direction = "prev" THEN (current_index - 1) % Len(images)
                  ELSE current_index
            /\ current_zoom' = DefaultZoom
            /\ ShowImage(images, current_index')
    /\ UNCHANGED <<images, current_crop_width, current_crop_height,
                   selected_for_deletion, crop_preset, custom_width, custom_height,
                   current_crop_width_field, current_crop_height_field,
                   display_size_dropdown, cropVars, storeVars, load_status, utilityVars>>

\* An argument of update_zoom: a number, in tenths, or a value float() rejects.
Number(tenths) == [type |-> "number", tenths |-> tenths]
NotANumber == [type |-> "str"]

\* update_zoom: float(zoom_value) is stored as it is; a value float() rejects
\* stores 1.0.
update_zoom(zoom_value) ==
    /\ current_zoom' = IF zoom_value.type = "number" THEN zoom_value.tenths
                       ELSE DefaultZoom
    /\ UNCHANGED <<images, current_index, current_crop_width, current_crop_height,
                   selected_for_deletion>>

\* zoom_slider.change: the user moves the slider to a step.
ZoomSliderChange(step) ==
    /\ zoom_slider' = step
    /\ update_zoom(Number(step))
    /\ UNCHANGED <<crop_preset, custom_width, custom_height,
                   current_crop_width_field, current_crop_height_field,
                   display_size_dropdown, current_image, cropVars, storeVars,
                   load_status, utilityVars>>

\* update_zoom called with a value that did not come from the slider (the
\* handler is also an API endpoint of the Blocks).
UpdateZoomCall(zoom_value) ==
    /\ update_zoom(zoom_value)
    /\ UNCHANGED <<widgetVars, cropVars, storeVars, load_status, utilityVars>>

----------------------------------------------------------------------------
(* Setting the crop target.  The custom width and height are whole numbers,  *)
(* for which int() returns the number itself.                                *)

\* update_crop_dimensions: what the call writes to the session.
update_crop_dimensions(preset_choice, cw, ch) ==
    /\ IF preset_choice = "Custom"
       THEN /\ current_crop_width' = IF cw > 0 THEN cw ELSE DimensionFallback
            /\ current_crop_height' = IF ch > 0 THEN ch ELSE DimensionFallback
       ELSE /\ current_crop_width' = crop_presets[preset_choice][1]
            /\ current_crop_height' = crop_presets[preset_choice][2]
    /\ UNCHANGED <<images, current_index, current_zoom, selected_for_deletion>>

\* crop_preset.change: the user picks a preset; the handler is called with the
\* two hidden fields and its second and third results are written back to
\* them (its first result shows custom_group exactly when the preset is
\* "Custom").
CropPresetChange(preset) ==
    /\ crop_preset' = preset
    /\ update_crop_dimensions(preset, current_crop_width_field,
                              current_crop_height_field)
    /\ IF preset = "Custom"
       THEN UNCHANGED <<current_crop_width_field, current_crop_height_field>>
       ELSE /\ current_crop_width_field' = crop_presets[preset][1]
            /\ current_crop_height_field' = crop_presets[preset][2]
    /\ UNCHANGED <<zoom_slider, custom_width, custom_height, display_size_dropdown,
                   current_image, cropVars, storeVars, load_status, utilityVars>>

\* custom_width.change: the value typed is copied to the hidden width field.
CustomWidthChange(w) ==
    /\ custom_width' = w
    /\ current_crop_width_field' = w
    /\ UNCHANGED <<sessionVars, zoom_slider, crop_preset, custom_height,
                   current_crop_height_field, display_size_dropdown,
                   current_image, cropVars, storeVars, load_status, utilityVars>>

\* custom_height.change: the value typed is copied to the hidden height field.
CustomHeightChange(h) ==
    /\ custom_height' = h
    /\ current_crop_height_field' = h
    /\ UNCHANGED <<sessionVars, zoom_slider, crop_preset, custom_width,
                   current_crop_width_field, display_size_dropdown,
                   current_image, cropVars, storeVars, load_status, utilityVars>>

\* update_crop_dimensions called with values that did not come from the
\* components (the handler is also an API endpoint of the Blocks).
UpdateCropDimensionsCall(preset_choice, cw, ch) ==
    /\ update_crop_dimensions(preset_choice, cw, ch)
    /\ UNCHANGED <<widgetVars, cropVars, storeVars, load_status, utilityVars>>

----------------------------------------------------------------------------
(* Saving crops and managing the output directory *)

\* The characters of the file names, in code point order.
CodePoints ==
    <<".", "/", "0", "1", "2", "3", "4", "5", "6", "7", "8", "9", "G", "J", "N",
      "P", "_", "a", "b", "c", "d", "e", "f", "g", "i", "j", "m", "n", "o", "p",
      "r", "t", "w", "x">>

\* ord(c)'s rank among the characters above
Ord(c) == CHOOSE i \in 1..Len(CodePoints) : CodePoints[i] = c

\* s < t on Python strings
StrLess(s, t) ==
    \E i \in 1..(Min(Len(s), Len(t)) + 1) :
        /\ \A j \in 1..(i - 1) : s[j] = t[j]
        /\ IF i > Len(s) THEN i <= Len(t)
           ELSE i <= Len(t) /\ Ord(s[i]) < Ord(t[i])

\* sorted(names)
RECURSIVE Sorted(_)
Sorted(names) ==
    IF names = {} THEN <<>>
    ELSE LET least == CHOOSE n \in names : \A o \in names \ {n} : StrLess(n, o)
         IN  <<least>> \o Sorted(names \ {least})

\* str(n) for n >= 0
RECURSIVE Str(_)
Str(n) ==
    LET digit(d) == <<"0", "1", "2", "3", "4", "5", "6", "7", "8", "9">>[d + 1]
    IN  IF n < 10 THEN <<digit(n)>> ELSE Str(n \div 10) \o <<digit(n % 10)>>

\* os.path.basename
Basename(path) ==
    LET seps == {i \in 1..Len(path) : path[i] = "/"}
        last == IF seps = {} THEN 0 ELSE CHOOSE i \in seps : \A j \in seps : j <= i
    IN  SubSeq(path, last + 1, Len(path))

\* os.path.splitext(name)[0] for a name without directory: the part before the
\* last dot, unless only dots come before it.
SplitextRoot(name) ==
    LET dots == {i \in 1..Len(name) : name[i] = "."}
        last == IF dots = {} THEN 0 ELSE CHOOSE i \in dots : \A j \in dots : j <= i
    IN  IF \E i \in 1..(last - 1) : name[i] # "."
        THEN SubSeq(name, 1, last - 1)
        ELSE name

\* os.listdir(self.output_dir), as a set
Listdir == DOMAIN output_dir

\* f"{base_name}_crop_{crop_count}.png"
OutputFilename(base_name, crop_count) ==
    base_name \o <<"_", "c", "r", "o", "p", "_">> \o Str(crop_count)
              \o <<".", "p", "n", "g">>

\* The locals of save_crop once self.images[self.current_index] is read.
SaveLocals(file) ==
    LET base_name == SplitextRoot(Basename(file.name))
        crop_count == Cardinality({f \in Listdir : StartsWith(f, base_name)}) + 1
    IN  [base_name |-> base_name, crop_count |-> crop_count,
         output_filename |-> OutputFilename(base_name, crop_count)]

\* Image.save(path): the file at path holds the image, whether or not a file
\* was there before.
WriteFile(dir, name, image) ==
    [n \in DOMAIN dir \cup {name} |-> IF n = name THEN image ELSE dir[n]]

ImageSuffixes ==
    {<<".", "p", "n", "g">>, <<".", "j", "p", "g">>, <<".", "j", "p", "e", "g">>}

\* The handler of save_btn.click.
save_crop ==
    /\ IF cropped_image = None
       THEN /\ save_status' = [text |-> "No cropped image to save"]
            /\ UNCHANGED <<output_dir, download_tab>>
       ELSE LET file == PyIndex(images, current_index)
            IN  IF file = [type |-> "raise"]
                THEN /\ save_status' = [text |-> "Error saving image"]
                     /\ UNCHANGED <<output_dir, download_tab>>
                ELSE LET l == SaveLocals(file)
                     IN  /\ output_dir' = WriteFile(output_dir, l.output_filename,
                                                    cropped_image)
                         /\ LET total_crops ==
                                    Cardinality({f \in DOMAIN output_dir' :
                                                   EndsWithAny(Lower(f), ImageSuffixes)})
                            IN  download_tab' = IF total_crops = 1 THEN TRUE
                                                ELSE download_tab
                         /\ save_status' = [text |-> "Saved as",
                                            output_filename |-> l.output_filename]
    /\ UNCHANGED <<sessionVars, widgetVars, cropVars, load_status, delete_status,
                   utilityVars>>

\* get_output_gallery: the image files of the output directory, sorted by name.
get_output_gallery ==
    Sorted({f \in Listdir : EndsWithAny(Lower(f), ImageSuffixes)})

\* A toggle that only ever adds the file.
ToggleMember_AddOnly(selection, file_path) == selection \cup {file_path}

\* toggle_file_selection: the selection after the file clicked is removed from
\* it if it was selected and added to it if it was not.
ToggleMember(selection, file_path) ==
    IF file_path \in selection THEN selection \ {file_path}
    ELSE selection \cup {file_path}

\* The handler of output_gallery.select; index is evt.index.  The status text
\* is kept without the file name it quotes.
toggle_file_selection(index) ==
    /\ LET original_files == get_output_gallery
       IN  IF index < Len(original_files)
           THEN LET file_path == PyIndex(original_files, index)
                IN  IF file_path = [type |-> "raise"]
                    THEN /\ delete_status' = [text |-> "Error selecting file"]
                         /\ UNCHANGED selected_for_deletion
                    ELSE /\ selected_for_deletion' =
                               ToggleMember(selected_for_deletion, file_path)
                         /\ delete_status' =
                               IF file_path \in selected_for_deletion
                               THEN [text |-> "Deselected"]
                               ELSE [text |-> "Selected for deletion"]
           ELSE /\ delete_status' = [text |-> "Click failed"]
                /\ UNCHANGED selected_for_deletion
    /\ UNCHANGED <<images, current_index, current_zoom, current_crop_width,
                   current_crop_height, widgetVars, cropVars, output_dir,
                   save_status, download_tab, load_status, utilityVars>>

\* A select-all that adds the files of the gallery to the selection it finds.
select_all_files_KeepsSelection ==
    /\ selected_for_deletion' =
           selected_for_deletion \cup {get_output_gallery[i] :
                                         i \in 1..Len(get_output_gallery)}
    /\ delete_status' = [text |-> "Selected all",
                         count |-> Cardinality(selected_for_deletion')]
    /\ UNCHANGED <<images, current_index, current_zoom, current_crop_width,
                   current_crop_height, widgetVars, cropVars, output_dir,
                   save_status, download_tab, load_status, utilityVars>>

\* The handler of select_all_btn.click.
select_all_files ==
    /\ selected_for_deletion' = {get_output_gallery[i] :
                                   i \in 1..Len(get_output_gallery)}
    /\ delete_status' = [text |-> "Selected all",
                         count |-> Cardinality(selected_for_deletion')]
    /\ UNCHANGED <<images, current_index, current_zoom, current_crop_width,
                   current_crop_height, widgetVars, cropVars, output_dir,
                   save_status, download_tab, load_status, utilityVars>>

\* The handler of clear_selection_btn.click.
clear_file_selection ==
    /\ selected_for_deletion' = {}
    /\ delete_status' = [text |-> "Cleared all selections"]
    /\ UNCHANGED <<images, current_index, current_zoom, current_crop_width,
                   current_crop_height, widgetVars, cropVars, output_dir,
                   save_status, download_tab, load_status, utilityVars>>

\* The directory without the files named.
RemoveFiles(dir, names) == [n \in DOMAIN dir \ names |-> dir[n]]

\* The handler of delete_selected_btn.click.  The selected files that exist
\* are removed one by one, in the set's iteration order; os.remove may raise
\* at any of them, and then the files removed so far stay removed and the
\* selection is not cleared.
delete_selected_crops ==
    /\ IF selected_for_deletion = {}
       THEN /\ delete_status' = [text |-> "No files selected for deletion"]
            /\ UNCHANGED <<selected_for_deletion, output_dir>>
       ELSE LET existing == selected_for_deletion \cap Listdir
            IN  \/ /\ output_dir' = RemoveFiles(output_dir, existing)
                   /\ selected_for_deletion' = {}
                   /\ delete_status' = [text |-> "Deleted",
                                        deleted_count |-> Cardinality(existing)]
                \/ \E raising \in existing :
                   \E removed \in SUBSET (existing \ {raising}) :
                       /\ output_dir' = RemoveFiles(output_dir, removed)
                       /\ delete_status' = [text |-> "Error deleting files"]
                       /\ UNCHANGED selected_for_deletion
    /\ UNCHANGED <<images, current_index, current_zoom, current_crop_width,
                   current_crop_height, widgetVars, cropVars, save_status,
                   download_tab, load_status, utilityVars>>

----------------------------------------------------------------------------
(* The dataset utilities.  A folder maps the names of its files to the      *)
(* files.  os.listdir returns the names in an order of the file system's    *)
(* choosing: the order of a run is an argument of the handlers.  Folders     *)
(* are flat.                                                                 *)

\* A grayscale image, and the caption file of x.png.
FileGray == File(<<"g", ".", "p", "n", "g">>, 64, 64, "L", TRUE)
FileCaption == File(<<"x", ".", "t", "x", "t">>, 0, 0, "", FALSE)

FolderOf(files) ==
    [n \in {f.name : f \in files} |-> CHOOSE f \in files : f.name = n]

\* os.listdir(folder): the names of the folder, in the file system's order.
ListdirIn(folder, order) ==
    LET Present(n) == n \in DOMAIN folder
    IN  SelectSeq(order, Present)

\* The extensions the corruption scan and the conversion look at, and those
\* process_uploaded_dataset counts as image files.
utility_formats ==
    {<<".", "p", "n", "g">>, <<".", "j", "p", "g">>, <<".", "j", "p", "e", "g">>,
     <<".", "g", "i", "f">>, <<".", "b", "m", "p">>, <<".", "t", "i", "f", "f">>}
dataset_formats == utility_formats \cup {<<".", "w", "e", "b", "p">>}
TxtSuffix == <<".", "t", "x", "t">>

\* find_caption_file: the caption files of an image in the folder (none or one).
find_caption_file(filename, folder) ==
    {n \in DOMAIN folder : n = SplitextRoot(filename) \o TxtSuffix}

\* One iteration of the scan's loop.  work holds the folder, the quarantine
\* directory and the log of the run.
ScanFile(work, filename, preserve_captions) ==
    IF ~EndsWithAny(Lower(filename), utility_formats) THEN work
    ELSE IF work.folder[filename].ok
    THEN [work EXCEPT !.log = Append(@, [op |-> "OK", file |-> filename])]
    ELSE LET captions == IF preserve_captions
                         THEN find_caption_file(filename, work.folder)
                         ELSE {}
             moved == {filename} \cup captions
         IN  [folder |-> RemoveFiles(work.folder, moved),
              corrupted |-> work.corrupted \cup moved,
              log |-> Append(work.log, [op |-> "quarantined", file |-> filename])]

\* check_and_remove_corrupted_images over os.listdir(folder_path).
RECURSIVE check_and_remove_corrupted_images(_, _, _)
check_and_remove_corrupted_images(work, listing, preserve_captions) ==
    IF listing = <<>> THEN work
    ELSE check_and_remove_corrupted_images(
             ScanFile(work, Head(listing), preserve_captions), Tail(listing),
             preserve_captions)

\* One iteration of the conversion's loop: grayscale, palette and RGBA images
\* are rewritten as RGB; a file PIL cannot open is an error.
ConvertFile(work, filename) ==
    IF ~EndsWithAny(Lower(filename), utility_formats) THEN work
    ELSE LET file == work.folder[filename]
         IN  IF ~file.ok
             THEN [work EXCEPT !.log = Append(@, [op |-> "error", file |-> filename])]
             ELSE IF file.mode \in {"L", "LA", "P", "RGBA"}
             THEN [work EXCEPT !.folder[filename].mode = "RGB",
                               !.log = Append(@, [op |-> "converted",
                                                  file |-> filename])]
             ELSE [work EXCEPT !.log = Append(@, [op |-> "skipped",
                                                  file |-> filename])]

\* convert_images_to_rgb over os.listdir(folder_path).
RECURSIVE convert_images_to_rgb(_, _)
convert_images_to_rgb(work, listing) ==
    IF listing = <<>> THEN work
    ELSE convert_images_to_rgb(ConvertFile(work, Head(listing)), Tail(listing))

\* Utilities that convert first and scan what the conversion left.
ApplyUtilities_ConvertFirst(work, order, convert_rgb, check_corruption, preserve_captions) ==
    LET converted == IF convert_rgb
                     THEN convert_images_to_rgb(work, ListdirIn(work.folder, order))
                     ELSE work
    IN  IF check_corruption
        THEN check_and_remove_corrupted_images(
                 converted, ListdirIn(converted.folder, order), preserve_captions)
        ELSE converted

\* The two utilities as both handlers apply them: the corruption check if it
\* is enabled, then the conversion if it is enabled.
ApplyUtilities(work, order, convert_rgb, check_corruption, preserve_captions) ==
    LET checked == IF check_corruption
                   THEN check_and_remove_corrupted_images(
                            work, ListdirIn(work.folder, order), preserve_captions)
                   ELSE work
    IN  IF convert_rgb
        THEN convert_images_to_rgb(checked, ListdirIn(checked.folder, order))
        ELSE checked

\* What a utilities run leaves behind.
UtilitiesRun(run, convert_rgb, check_corruption, processed, temp_crops, corrupted, log, status, zip) ==
    [run |-> run, convert_rgb |-> convert_rgb, check_corruption |-> check_corruption,
     processed |-> processed, temp_crops |-> temp_crops, corrupted |-> corrupted,
     log |-> log, status |-> status, zip |-> zip]

\* The handler of process_btn.click.  zip_file is None, a file that is no ZIP
\* archive, or an archive of files.
process_uploaded_dataset(zip_file, order, convert_rgb, check_corruption, preserve_captions) ==
    /\ IF zip_file.type = "None"
       THEN utilities' = UtilitiesRun("dataset", convert_rgb, check_corruption,
                                      utilities.processed, utilities.temp_crops,
                                      utilities.corrupted, <<>>,
                                      "No file uploaded", {})
       ELSE IF zip_file.type # "zip"
       THEN utilities' = UtilitiesRun("dataset", convert_rgb, check_corruption,
                                      FolderOf({}), utilities.temp_crops,
                                      utilities.corrupted, <<>>,
                                      "Error processing dataset", {})
       ELSE LET extracted == FolderOf(zip_file.files)
                image_files == {n \in DOMAIN extracted :
                                  EndsWithAny(Lower(n), dataset_formats)}
                work == ApplyUtilities([folder |-> extracted,
                                        corrupted |-> utilities.corrupted,
                                        log |-> <<>>],
                                       order, convert_rgb, check_corruption,
                                       preserve_captions)
            IN  IF image_files = {}
                THEN utilities' =
                         UtilitiesRun("dataset", convert_rgb, check_corruption,
                                      extracted, utilities.temp_crops,
                                      utilities.corrupted, <<>>,
                                      "No image files found in ZIP", {})
                ELSE utilities' =
                         UtilitiesRun("dataset", convert_rgb, check_corruption,
                                      work.folder, utilities.temp_crops,
                                      work.corrupted, work.log,
                                      "Processing complete",
                                      {n \in DOMAIN work.folder :
                                         \/ EndsWithAny(Lower(n), dataset_formats)
                                         \/ /\ EndsWith(Lower(n), TxtSuffix)
                                            /\ preserve_captions})
    /\ UNCHANGED <<sessionVars, widgetVars, cropVars, storeVars, load_status>>

\* The PNG file save_crop wrote for a raster.
CropFile(name, raster) ==
    File(name, raster.size[1], raster.size[2], raster.mode, TRUE)

\* The handler of download_confirm_btn.click and, with both flags off, of
\* download_skip_btn.click.  It reads the output directory and writes only
\* the utilities' folders.
download_all_crops_with_utilities(order, convert_rgb, check_corruption) ==
    /\ IF Listdir = {}
       THEN utilities' = UtilitiesRun("download", convert_rgb, check_corruption,
                                      utilities.processed, utilities.temp_crops,
                                      utilities.corrupted, <<>>,
                                      "No crops to download", {})
       ELSE IF convert_rgb \/ check_corruption
       THEN LET crops == {n \in Listdir : EndsWithAny(Lower(n), ImageSuffixes)}
                copied == [n \in crops |-> CropFile(n, output_dir[n])]
                work == ApplyUtilities([folder |-> copied,
                                        corrupted |-> utilities.corrupted,
                                        log |-> <<>>],
                                       order, convert_rgb, check_corruption, FALSE)
            IN  utilities' =
                    UtilitiesRun("download", convert_rgb, check_corruption,
                                 utilities.processed, work.folder, work.corrupted,
                                 work.log, "Created zip (Processed)",
                                 {n \in DOMAIN work.folder :
                                    EndsWithAny(Lower(n), ImageSuffixes)})
       ELSE utilities' =
                UtilitiesRun("download", convert_rgb, check_corruption,
                             utilities.processed, utilities.temp_crops,
                             utilities.corrupted, <<>>, "Created zip",
                             {n \in Listdir : EndsWithAny(Lower(n), ImageSuffixes)})
    /\ UNCHANGED <<sessionVars, widgetVars, cropVars, storeVars, load_status>>

----------------------------------------------------------------------------
(* The state after ImagePrepApp() and the construction of the Blocks *)

EmptyDir == [n \in {} |-> None]

\* No utilities run yet: the processed and corrupted folders are empty.
NoRun ==
    UtilitiesRun("none", FALSE, FALSE, FolderOf({}), FolderOf({}), {}, <<>>, "", {})

Init ==
    /\ images = <<>>
    /\ current_index = 0
    /\ current_zoom = DefaultZoom
    /\ current_crop_width = DefaultCropWidth
    /\ current_crop_height = DefaultCropHeight
    /\ selected_for_deletion = {}
    /\ output_dir = EmptyDir
    /\ zoom_slider = DefaultZoom
    /\ crop_preset = "512x512"
    /\ custom_width = DefaultCropWidth
    /\ custom_height = DefaultCropHeight
    /\ current_crop_width_field = DefaultCropWidth
    /\ current_crop_height_field = DefaultCropHeight
    /\ display_size_dropdown = "Medium (800x600)"
    /\ current_image = None
    /\ cropped_image = None
    /\ crop_status = ""
    /\ save_status = [text |-> ""]
    /\ download_tab = FALSE
    /\ delete_status = [text |-> ""]
    /\ load_status = ""
    /\ utilities = NoRun
    /\ click = [outcome |-> "none"]

----------------------------------------------------------------------------
(* Spec: the session.  Files are uploaded, images selected and navigated,    *)
(* and the zoom changed, from the state after construction.                  *)

\* The longest batch of files uploaded at once.
MaxUpload == 3

UploadFiles == {FileA, FileAB, FileBad, FileTxt}

\* The batches: sequences of at most MaxUpload different files.
Batches ==
    UNION {{b \in [1..n -> UploadFiles] : \A i, j \in 1..n : i # j => b[i] # b[j]}
           : n \in 0..MaxUpload}

\* evt.index values of the gallery: every position, one past the end, and -1.
GalleryIndexes == -1..MaxUpload

\* Slider steps tried in the session, and arguments of direct update_zoom calls.
SessionSteps == {SliderMinimum, DefaultZoom, SliderMaximum}
ZoomArguments == {Number(-5), Number(0), Number(50), NotANumber}

Next ==
    \/ \E files \in Batches : load_images_from_folder(files)
    \/ \E index \in GalleryIndexes : select_from_gallery(index)
    \/ \E direction \in {"next", "prev"} : navigate_image(direction)
    \/ \E step \in SessionSteps : ZoomSliderChange(step)
    \/ \E zoom_value \in ZoomArguments : UpdateZoomCall(zoom_value)

Spec == Init /\ [][Next]_vars

\* SpecLoad: the session without the zoom handlers.  Files are uploaded and
\* the user moves between the images.
NextLoad ==
    \/ \E files \in Batches : load_images_from_folder(files)
    \/ \E index \in GalleryIndexes : select_from_gallery(index)
    \/ \E direction \in {"next", "prev"} : navigate_image(direction)

SpecLoad == Init /\ [][NextLoad]_vars

----------------------------------------------------------------------------
(* SpecCrop: the crop geometry.  A session in which four images are loaded,  *)
(* one is selected and shown at a display size, a crop target and a zoom are *)
(* set; from there the user clicks on the image.                             *)

\* How far outside the display image a click may fall.
Overshoot == 1

CropImages == <<FileA, FileAB, FileD, FileRgba>>
CropDisplaySizes == {"Small (600x480)", "Large (1000x750)", "Original Size"}
CustomSizes == {1, 33}

\* The evt.index values tried on a display image: no index, the corners and
\* the centre, and points up to Overshoot pixels outside each edge.
ClickIndexes(image) ==
    LET dw == image.size[1]
        dh == image.size[2]
    IN  {<<>>, <<0, 0>>, <<dw \div 2, dh \div 2>>, <<dw - 1, dh - 1>>,
         <<0, dh - 1>>, <<dw - 1, 0>>}
        \cup UNION {{<<-k, dh \div 2>>, <<dw \div 2, -k>>, <<-k, -k>>,
                     <<dw - 1 + k, dh \div 2>>, <<dw \div 2, dh - 1 + k>>,
                     <<dw - 1 + k, dh - 1 + k>>} : k \in 1..Overshoot}

InitCrop ==
    /\ images = CropImages
    /\ current_index \in 0..(Len(CropImages) - 1)
    /\ display_size_dropdown \in CropDisplaySizes
    /\ current_image = OpenDisplayImage(images[current_index + 1], display_size_dropdown)
    /\ crop_preset \in DOMAIN crop_presets
    /\ IF crop_preset = "Custom"
       THEN /\ custom_width \in CustomSizes
            /\ custom_height \in CustomSizes
            /\ current_crop_width = DefaultCropWidth
            /\ current_crop_height = DefaultCropHeight
       ELSE /\ custom_width = DefaultCropWidth
            /\ custom_height = DefaultCropHeight
            /\ current_crop_width = crop_presets[crop_preset][1]
            /\ current_crop_height = crop_presets[crop_preset][2]
    /\ current_crop_width_field = IF crop_preset = "Custom" THEN custom_width
                                  ELSE current_crop_width
    /\ current_crop_height_field = IF crop_preset = "Custom" THEN custom_height
                                   ELSE current_crop_height
    /\ zoom_slider \in SliderSteps
    /\ current_zoom = zoom_slider
    /\ selected_for_deletion = {}
    /\ output_dir = EmptyDir
    /\ cropped_image = None
    /\ crop_status = ""
    /\ save_status = [text |-> ""]
    /\ download_tab = FALSE
    /\ delete_status = [text |-> ""]
    /\ load_status = ""
    /\ utilities = NoRun
    /\ click = [outcome |-> "none"]

NextCrop ==
    \E index \in ClickIndexes(current_image) : process_crop_click(index)

SpecCrop == InitCrop /\ [][NextCrop]_vars

----------------------------------------------------------------------------
(* SpecStore: the output directory.  Two images whose names share a prefix   *)
(* have been uploaded; the user navigates, crops, saves, selects saved crops *)
(* and deletes them.                                                         *)

\* The most files the output directory holds before a save.
MaxCrops == 2

StoreImages == <<FileA, FileAB>>

\* evt.index values of the output gallery: every position and one past the end.
OutputGalleryIndexes == 0..MaxCrops

\* A click at the centre of the display image.
CentreClick(image) ==
    IF image = None THEN <<>> ELSE <<image.size[1] \div 2, image.size[2] \div 2>>

\* The state after load_images_from_folder(StoreImages) in the initial state.
InitStore ==
    /\ images = StoreImages
    /\ current_index = 0
    /\ current_zoom = DefaultZoom
    /\ current_crop_width = DefaultCropWidth
    /\ current_crop_height = DefaultCropHeight
    /\ selected_for_deletion = {}
    /\ output_dir = EmptyDir
    /\ zoom_slider = DefaultZoom
    /\ crop_preset = "512x512"
    /\ custom_width = DefaultCropWidth
    /\ custom_height = DefaultCropHeight
    /\ current_crop_width_field = DefaultCropWidth
    /\ current_crop_height_field = DefaultCropHeight
    /\ display_size_dropdown = "Medium (800x600)"
    /\ current_image = None
    /\ cropped_image = None
    /\ crop_status = ""
    /\ save_status = [text |-> ""]
    /\ download_tab = FALSE
    /\ delete_status = [text |-> ""]
    /\ load_status = "Successfully loaded"
    /\ utilities = NoRun
    /\ click = [outcome |-> "none"]

SaveBtnClick ==
    /\ Cardinality(Listdir) < MaxCrops
    /\ save_crop

NextStore ==
    \/ \E direction \in {"next", "prev"} : navigate_image(direction)
    \/ process_crop_click(CentreClick(current_image))
    \/ SaveBtnClick
    \/ \E index \in OutputGalleryIndexes : toggle_file_selection(index)
    \/ select_all_files
    \/ clear_file_selection
    \/ delete_selected_crops

SpecStore == InitStore /\ [][NextStore]_vars

----------------------------------------------------------------------------
(* SpecTarget: the crop target.  From the state after construction the user  *)
(* changes the preset and types custom sizes, and update_crop_dimensions is  *)
(* called with sizes of its caller's choice.                                 *)

TargetPresets == {"512x512", "512x768", "Custom"}

\* Sizes the Number components accept (minimum = 1), and sizes a direct call
\* may pass.
TypedSizes == {1, 33}
CallSizes == {-3, 0, 1, 33}

NextTarget ==
    \/ \E preset \in TargetPresets : CropPresetChange(preset)
    \/ \E w \in TypedSizes : CustomWidthChange(w)
    \/ \E h \in TypedSizes : CustomHeightChange(h)
    \/ \E preset \in TargetPresets : \E w, h \in CallSizes :
           UpdateCropDimensionsCall(preset, w, h)

SpecTarget == Init /\ [][NextTarget]_vars

----------------------------------------------------------------------------
(* SpecSelect: the selection.  The second image has been cropped at its      *)
(* centre and the crop saved SavedCrops times; the user selects saved crops  *)
(* in the output gallery and deletes them.                                   *)

\* The number of crops saved before the selecting starts.
SavedCrops == 3

\* evt.index values of the output gallery: every position and one past the end.
SelectGalleryIndexes == 0..SavedCrops

\* The click that made the crop, and the crop.
SelectClick ==
    LET file == StoreImages[2]
        image == OpenDisplayImage(file, "Medium (800x600)")
        index == CentreClick(image)
    IN  [file |-> file, image |-> image, index |-> index,
         locals |-> CropLocals(image, "512x512", DefaultCropWidth,
                               DefaultCropHeight, DefaultZoom, index, file)]

\* The state after load_images_from_folder(StoreImages), navigate_image("next"),
\* a click at the centre and count calls of save_crop.
AfterSaves(count) ==
    /\ images = StoreImages
    /\ current_index = 1
    /\ current_zoom = DefaultZoom
    /\ current_crop_width = DefaultCropWidth
    /\ current_crop_height = DefaultCropHeight
    /\ selected_for_deletion = {}
    /\ zoom_slider = DefaultZoom
    /\ crop_preset = "512x512"
    /\ custom_width = DefaultCropWidth
    /\ custom_height = DefaultCropHeight
    /\ current_crop_width_field = DefaultCropWidth
    /\ current_crop_height_field = DefaultCropHeight
    /\ display_size_dropdown = "Medium (800x600)"
    /\ current_image = SelectClick.image
    /\ cropped_image = CroppedRaster(SelectClick.file, SelectClick.locals)
    /\ crop_status = "Cropped"
    /\ click = [outcome |-> "Cropped", args |-> CropArgs(SelectClick.index),
                locals |-> SelectClick.locals]
    /\ output_dir =
           [n \in {OutputFilename(SplitextRoot(Basename(SelectClick.file.name)), k)
                     : k \in 1..count} |-> cropped_image]
    /\ save_status =
           [text |-> "Saved as",
            output_filename |->
                OutputFilename(SplitextRoot(Basename(SelectClick.file.name)),
                               count)]
    /\ download_tab = TRUE
    /\ delete_status = [text |-> ""]
    /\ load_status = "Successfully loaded"
    /\ utilities = NoRun

InitSelect == AfterSaves(SavedCrops)

NextSelect ==
    \/ \E index \in SelectGalleryIndexes : toggle_file_selection(index)
    \/ select_all_files
    \/ clear_file_selection
    \/ delete_selected_crops

SpecSelect == InitSelect /\ [][NextSelect]_vars

----------------------------------------------------------------------------
(* SpecUtilities: the utilities.  With one crop saved, dataset archives are  *)
(* processed and the crops downloaded, with every choice of the utilities'   *)
(* check boxes and every order of the directory listings.                    *)

\* The most files an uploaded archive holds.
MaxArchive == 2

ArchiveFiles == {FileGray, FileBad, FileCaption}

ZipFiles ==
    {None, [type |-> "file"]}
    \cup {[type |-> "zip", files |-> files] :
            files \in {a \in SUBSET ArchiveFiles : Cardinality(a) <= MaxArchive}}

\* The orders in which a directory of the given names can be listed.
Orders(names) ==
    {o \in [1..Cardinality(names) -> names] :
       \A i, j \in 1..Cardinality(names) : i # j => o[i] # o[j]}

ZipNames(zip_file) ==
    IF zip_file.type = "zip" THEN {f.name : f \in zip_file.files} ELSE {}

NextUtilities ==
    \/ \E zip_file \in ZipFiles : \E order \in Orders(ZipNames(zip_file)) :
       \E convert_rgb, check_corruption, preserve_captions \in BOOLEAN :
           process_uploaded_dataset(zip_file, order, convert_rgb, check_corruption,
                                    preserve_captions)
    \/ \E order \in Orders(Listdir) : \E convert_rgb, check_corruption \in BOOLEAN :
           download_all_crops_with_utilities(order, convert_rgb, check_corruption)

InitUtilities == AfterSaves(1)

SpecUtilities == InitUtilities /\ [][NextUtilities]_vars

----------------------------------------------------------------------------
(* SpecClick: clicks in a session.  From the state after construction the   *)
(* user uploads files, one of which cannot be decoded, moves between the     *)
(* images, sets the crop target and clicks on the image shown; and           *)
(* process_crop_click is called with a zoom of its caller's choice.          *)

ClickBatches == {<<FileAB, FileBad>>}
ClickPresets == {"512x768", "Custom"}
ClickHeights == {33}

\* The zoom values of direct calls, in tenths.
ClickZoomArguments == {0, DefaultZoom}

NextClick ==
    \/ \E files \in ClickBatches : load_images_from_folder(files)
    \/ \E direction \in {"next", "prev"} : navigate_image(direction)
    \/ \E preset \in ClickPresets : CropPresetChange(preset)
    \/ \E w \in TypedSizes : CustomWidthChange(w)
    \/ \E h \in ClickHeights : CustomHeightChange(h)
    \/ process_crop_click(CentreClick(current_image))
    \/ \E zoom_value \in ClickZoomArguments :
           ProcessCropClickCall(zoom_value, CentreClick(current_image))

SpecClick == Init /\ [][NextClick]_vars

----------------------------------------------------------------------------
(* Properties of the crop geometry, read off the last process_crop_click call *)

HasLocals == "locals" \in DOMAIN click

\* A crop target with both dimensions >= 1.
ValidTarget(args) ==
    args.crop_preset = "Custom" => args.custom_width >= 1 /\ args.custom_height >= 1

\* The requested target: the preset's dimensions or the custom width / height.
RequestedTarget(args) ==
    IF args.crop_preset = "Custom" THEN <<args.custom_width, args.custom_height>>
    ELSE crop_presets[args.crop_preset]

\* The click point lies in [0, dw) x [0, dh) of the display image.
ClickInside(args) ==
    LET pt == ClickPoint(args.index)
    IN  /\ 0 <= pt[1] /\ pt[1] < args.image.size[1]
        /\ 0 <= pt[2] /\ pt[2] < args.image.size[2]

\* The resolved rectangle <<x, y, w, h>> of a call's locals.
Rectangle(l) == <<l.crop_x, l.crop_y, l.actual_crop_width, l.actual_crop_height>>

\* C1: crop containment.  For a click inside the display image, a target with
\* both dimensions >= 1 and a zoom on the slider, the rectangle the call
\* resolves lies inside the original image: 0 <= x, 0 <= y, x + w <= W and
\* y + h <= H.
C1_CropContainment ==
    (HasLocals /\ ValidTarget(click.args) /\ click.args.zoom_value \in SliderSteps
       /\ ClickInside(click.args))
    => LET l == click.locals
       IN  /\ 0 <= l.crop_x
           /\ 0 <= l.crop_y
           /\ l.crop_x + l.actual_crop_width <= l.orig_width
           /\ l.crop_y + l.actual_crop_height <= l.orig_height

\* A click inside the display image whose sample fits in the original and was
\* pushed back from the right and bottom edges, and one whose sample is larger
\* than the original in both axes.
C1_Witness_ClampedAtEdge ==
    /\ HasLocals /\ click.outcome = "Cropped" /\ ClickInside(click.args)
    /\ click.locals.effective_crop_width < click.locals.orig_width
    /\ click.locals.crop_x > 0
    /\ click.locals.crop_x + click.locals.actual_crop_width = click.locals.orig_width
    /\ click.locals.orig_click_x - click.locals.effective_crop_width \div 2
         > click.locals.crop_x

\* C4: non-empty crop rectangle.  For a target with both dimensions >= 1 and
\* a zoom on the slider the resolved rectangle has w > 0 and h > 0.
C4_NonEmptyRectangle ==
    (HasLocals /\ ValidTarget(click.args) /\ click.args.zoom_value \in SliderSteps)
    => click.locals.actual_crop_width > 0 /\ click.locals.actual_crop_height > 0

\* C5: fixed output size.  Every successful crop click returns a raster whose
\* dimensions are the requested target, whatever the zoom, the size of the
\* source and the size of the box sampled.
C5_FixedOutputSize ==
    (click.outcome = "Cropped" /\ ValidTarget(click.args))
    => /\ cropped_image # None
       /\ cropped_image.size = RequestedTarget(click.args)

\* A successful click whose raster is neither the size of the effective sample
\* nor the size of the box cut from a source smaller than the sample.
C5_Witness_ResampledFromSmallerBox ==
    /\ click.outcome = "Cropped"
    /\ click.args.zoom_value # DefaultZoom
    /\ click.locals.actual_crop_width < click.locals.effective_crop_width
    /\ click.locals.actual_crop_width > 0 /\ click.locals.actual_crop_height > 0
    /\ cropped_image.size # <<click.locals.actual_crop_width,
                              click.locals.actual_crop_height>>
    /\ cropped_image.size # <<click.locals.effective_crop_width,
                              click.locals.effective_crop_height>>

\* C6: zoom model.  For every target and every zoom z on the slider the
\* effective sample size the call uses is exactly (floor(tw / z), floor(th / z)).
C6_EffectiveSampleIsFloor ==
    (HasLocals /\ click.args.zoom_value \in SliderSteps)
    => /\ click.locals.effective_crop_width
            = (10 * click.locals.base_crop_width) \div click.args.zoom_value
       /\ click.locals.effective_crop_height
            = (10 * click.locals.base_crop_height) \div click.args.zoom_value

\* C7: zoom inversion law.  With the target of the call held fixed, every
\* higher zoom on the slider gives a sample no wider, no taller and of no
\* larger area than the sample the call used, and every lower zoom one no
\* smaller.
C7_ZoomInversion ==
    (HasLocals /\ click.args.zoom_value \in SliderSteps)
    => LET l == click.locals
       IN  \A z \in SliderSteps :
               LET w == EffectiveCrop(l.base_crop_width, z)
                   h == EffectiveCrop(l.base_crop_height, z)
               IN  /\ z > click.args.zoom_value
                       => /\ w <= l.effective_crop_width
                          /\ h <= l.effective_crop_height
                          /\ w * h <= l.effective_crop_width * l.effective_crop_height
                   /\ z < click.args.zoom_value
                       => /\ w >= l.effective_crop_width
                          /\ h >= l.effective_crop_height
                          /\ w * h >= l.effective_crop_width * l.effective_crop_height

\* A call at a zoom above 1.0 whose sample is strictly smaller than the target.
C7_Witness_ZoomedIn ==
    /\ HasLocals /\ click.outcome = "Cropped"
    /\ click.args.zoom_value > DefaultZoom
    /\ click.locals.effective_crop_width < click.locals.base_crop_width
    /\ click.locals.effective_crop_height < click.locals.base_crop_height

\* C8: out-of-range click tolerance.  A click outside [0, dw) x [0, dh) is
\* resolved exactly as a click at (0, 0).
C8_OutsideClickIsOrigin ==
    (HasLocals /\ ~ClickInside(click.args))
    => Rectangle(click.locals)
         = Rectangle(CropLocals(click.args.image, click.args.crop_preset,
                                click.args.custom_width, click.args.custom_height,
                                click.args.zoom_value, <<0, 0>>,
                                images[click.args.current_index + 1]))

\* C9: click determinism.  A click changes nothing of the session or of the
\* widgets a click reads, and a click that follows another with the same
\* arguments resolves the same locals, the crop rectangle among them.
C9_ClickDeterminism ==
    [][click' # click
         => /\ UNCHANGED <<sessionVars, widgetVars>>
            /\ ("locals" \in DOMAIN click /\ "locals" \in DOMAIN click'
                  /\ click'.args = click.args)
               => click'.locals = click.locals]_vars

\* A rectangle has been resolved and the session still holds the arguments it
\* was resolved from: the same click again is a call with the same inputs.
C9_Witness_SameInputsAgain ==
    /\ HasLocals /\ click.outcome = "Cropped"
    /\ click.args = CropArgs(click.args.index)
    /\ ClickInside(click.args)
    /\ click.locals.crop_x > 0

----------------------------------------------------------------------------
(* Properties of the resolved rectangle *)

Clamp(v, lo, hi) == IF v < lo THEN lo ELSE IF v > hi THEN hi ELSE v

\* C24: centre, then clamp.  When the effective sample fits in the original
\* (ew <= W and eh <= H) the origin is x = Clamp(ox - ew div 2, 0, W - ew),
\* y = Clamp(oy - eh div 2, 0, H - eh), with (ox, oy) the click in original
\* coordinates, and the size is (ew, eh); and the click (0, 0) on the
\* 1000 x 800 image shown at its original size, with target 512 x 512 and
\* zoom 1.0, resolves to (0, 0, 512, 512).
C24_CentreThenClamp ==
    HasLocals
    => LET l == click.locals
       IN  /\ (l.effective_crop_width <= l.orig_width
                 /\ l.effective_crop_height <= l.orig_height)
              => /\ l.crop_x = Clamp(l.orig_click_x - l.effective_crop_width \div 2,
                                     0, l.orig_width - l.effective_crop_width)
                 /\ l.crop_y = Clamp(l.orig_click_y - l.effective_crop_height \div 2,
                                     0, l.orig_height - l.effective_crop_height)
                 /\ l.actual_crop_width = l.effective_crop_width
                 /\ l.actual_crop_height = l.effective_crop_height
           /\ (/\ click.args.image.size = <<1000, 800>>
               /\ <<l.orig_width, l.orig_height>> = <<1000, 800>>
               /\ click.args.crop_preset = "512x512"
               /\ click.args.zoom_value = 10
               /\ click.args.index = <<0, 0>>)
              => Rectangle(l) = <<0, 0, 512, 512>>

\* A sample that fits has been centred on the click without touching an edge,
\* with an odd effective width.
C24_Witness_CentredInside ==
    /\ HasLocals /\ click.outcome = "Cropped"
    /\ click.locals.effective_crop_width % 2 = 1
    /\ click.locals.effective_crop_width < click.locals.orig_width
    /\ click.locals.effective_crop_height < click.locals.orig_height
    /\ click.locals.crop_x > 0
    /\ click.locals.crop_x + click.locals.actual_crop_width < click.locals.orig_width
    /\ click.locals.crop_x
         = click.locals.orig_click_x - click.locals.effective_crop_width \div 2

----------------------------------------------------------------------------

(* Properties of a sample larger than the image *)

\* C25: oversized sample.  For every click point, in each axis in which the
\* effective sample is larger than the original the rectangle starts at 0 and
\* spans the original; the 300 x 300 image with target 512 x 512 at zoom 1.0
\* resolves to (0, 0, 300, 300).
C25_OversizedSample ==
    HasLocals
    => LET l == click.locals
       IN  /\ l.effective_crop_width > l.orig_width
              => (l.crop_x = 0 /\ l.actual_crop_width = l.orig_width)
           /\ l.effective_crop_height > l.orig_height
              => (l.crop_y = 0 /\ l.actual_crop_height = l.orig_height)
           /\ (/\ <<l.orig_width, l.orig_height>> = <<300, 300>>
               /\ click.args.crop_preset = "512x512"
               /\ click.args.zoom_value = 10)
              => Rectangle(l) = <<0, 0, 300, 300>>

\* The 300 x 300 image was clicked at its bottom right corner with target
\* 512 x 512 at zoom 1.0 and the whole image was taken.
C25_Witness_WholeImageTaken ==
    /\ HasLocals /\ click.outcome = "Cropped"
    /\ <<click.locals.orig_width, click.locals.orig_height>> = <<300, 300>>
    /\ click.args.crop_preset = "512x512"
    /\ click.args.zoom_value = 10
    /\ click.locals.orig_click_x > 256
    /\ click.locals.orig_click_y > 256
    /\ Rectangle(click.locals) = <<0, 0, 300, 300>>

----------------------------------------------------------------------------

(* Properties of the click-to-original conversion *)

\* C26: scale round trip.  A click at the centre (dw div 2, dh div 2) of the
\* display image produced for the current image maps to a point within one
\* pixel, in each axis, of the centre (W / 2, H / 2) of the original:
\* |2 * ox - W| <= 2 and |2 * oy - H| <= 2.
C26_ScaleRoundTrip ==
    (/\ HasLocals
     /\ click.args.image.of = PyIndex(images, current_index).name
     /\ click.args.index = <<click.args.image.size[1] \div 2,
                             click.args.image.size[2] \div 2>>)
    => /\ Abs(2 * click.locals.orig_click_x - click.locals.orig_width) <= 2
       /\ Abs(2 * click.locals.orig_click_y - click.locals.orig_height) <= 2

----------------------------------------------------------------------------

(* Properties of the display image *)

\* C27: display fit without upscaling.  The display image (dw, dh) shown for
\* an original (W, H) under a named bound (maxW, maxH) has dw <= maxW,
\* dh <= maxH, dw <= W and dh <= H, and is (W, H) when W <= maxW and
\* H <= maxH; under "Original Size" it is (W, H).
C27_DisplayFit ==
    (/\ current_image # None
     /\ images # <<>>
     /\ current_image.of = PyIndex(images, current_index).name)
    => LET W == PyIndex(images, current_index).size[1]
           H == PyIndex(images, current_index).size[2]
           dw == current_image.size[1]
           dh == current_image.size[2]
           maxW == display_sizes[display_size_dropdown][1]
           maxH == display_sizes[display_size_dropdown][2]
       IN  IF display_size_dropdown = "Original Size"
           THEN <<dw, dh>> = <<W, H>>
           ELSE /\ dw <= maxW /\ dh <= maxH /\ dw <= W /\ dh <= H
                /\ (W <= maxW /\ H <= maxH) => <<dw, dh>> = <<W, H>>

----------------------------------------------------------------------------

(* Properties of the session *)

\* C3: zoom range invariant.  In every reachable state of the session the
\* stored zoom lies in [0.1, 3.0].
C3_ZoomInRange ==
    SliderMinimum <= current_zoom /\ current_zoom <= SliderMaximum

\* C10: select success.  select_from_gallery with an index in [0, len(images))
\* sets current_index to that index and the stored zoom to 1.0, and leaves the
\* image list, the crop target and the selection set as they were.
C10_SelectSuccess ==
    [][\A index \in GalleryIndexes :
          (select_from_gallery(index) /\ 0 <= index /\ index < Len(images))
          => /\ current_index' = index
             /\ current_zoom' = DefaultZoom
             /\ UNCHANGED <<images, current_crop_width, current_crop_height,
                            selected_for_deletion>>]_vars

\* The second of at least two loaded images is the current one and is shown,
\* with the stored zoom and the slider at 1.0: the state a successful
\* select of index 1 leaves.
C10_Witness_SecondImageSelected ==
    /\ Len(images) >= 2
    /\ current_index = 1
    /\ current_zoom = DefaultZoom
    /\ zoom_slider = DefaultZoom
    /\ current_image # None
    /\ current_image.of = images[2].name

\* C11: select rejection.  select_from_gallery with an index outside
\* [0, len(images)), at or beyond the end or negative, leaves current_index
\* and the stored zoom unchanged.
C11_SelectRejection ==
    [][\A index \in GalleryIndexes :
          (select_from_gallery(index) /\ ~(0 <= index /\ index < Len(images)))
          => UNCHANGED <<current_index, current_zoom>>]_vars

\* C12: navigation wrap.  With n >= 1 images loaded and current index i,
\* navigate_image("next") yields (i + 1) mod n and navigate_image("prev")
\* yields (i - 1) mod n, and the stored zoom is 1.0 afterwards; with no images
\* loaded navigate_image returns its "no images" outputs and changes nothing
\* of the session.
C12_NavigationWrap ==
    [][\A direction \in {"next", "prev"} :
          navigate_image(direction)
          => IF images # <<>>
             THEN /\ current_index' =
                        (current_index + (IF direction = "next" THEN 1 ELSE -1))
                            % Len(images)
                  /\ 0 <= current_index' /\ current_index' < Len(images)
                  /\ current_zoom' = DefaultZoom
             ELSE /\ current_image' = None
                  /\ UNCHANGED sessionVars]_vars

\* The last of at least two images is the current one and is shown, at zoom
\* 1.0: the state "prev" from index 0 leaves.
C12_Witness_WrappedToLast ==
    /\ Len(images) >= 2
    /\ current_index = Len(images) - 1
    /\ current_zoom = DefaultZoom
    /\ zoom_slider = DefaultZoom
    /\ current_image # None
    /\ current_image.of = images[Len(images)].name

\* The active image: images[current_index], None with no images loaded.
ActiveImage ==
    IF images = <<>> THEN None ELSE PyIndex(images, current_index)

\* C13: zoom reset on image change.  In every step in which the active image
\* changes, by a select, a navigation or a load that replaces the list, the
\* stored zoom is 1.0 in the resulting state.
C13_ZoomResetOnImageChange ==
    [][ActiveImage' # ActiveImage => current_zoom' = DefaultZoom]_vars

\* C14: invalid zoom rejection.  update_zoom called with a value <= 0, or with
\* a value that is no number, leaves the stored zoom unchanged.
C14_InvalidZoomRejected ==
    [][\A zoom_value \in ZoomArguments :
          (/\ UpdateZoomCall(zoom_value)
           /\ (zoom_value.type # "number" \/ zoom_value.tenths <= 0))
          => UNCHANGED current_zoom]_vars

\* C15: invalid custom dimensions rejection.  update_crop_dimensions with
\* preset "Custom" and a width or a height below 1 leaves the stored crop
\* target as it was.
C15_InvalidDimensionsRejected ==
    [][\A w, h \in CallSizes :
          (/\ \/ UpdateCropDimensionsCall("Custom", w, h)
              \/ /\ CropPresetChange("Custom")
                 /\ w = current_crop_width_field
                 /\ h = current_crop_height_field
           /\ (w < 1 \/ h < 1))
          => UNCHANGED <<current_crop_width, current_crop_height>>]_vars

\* C20: validate-then-commit on load.  A load_images_from_folder call that ends
\* with "No files uploaded" or "No supported image files found" leaves the
\* image list, the current index and the stored zoom as they were.
C20_FailedLoadKeepsSession ==
    [][\A files \in Batches :
          (/\ load_images_from_folder(files)
           /\ load_status' \in {"No files uploaded",
                                "No supported image files found"})
          => UNCHANGED <<images, current_index, current_zoom>>]_vars

\* The extension allow-list as the specification gives it.
AllowListed(file) ==
    \E suffix \in {<<".", "p", "n", "g">>, <<".", "j", "p", "g">>,
                   <<".", "j", "p", "e", "g">>, <<".", "g", "i", "f">>,
                   <<".", "b", "m", "p">>, <<".", "t", "i", "f", "f">>,
                   <<".", "w", "e", "b", "p">>} :
        EndsWith(Lower(file.name), suffix)

CannotCrop(zoom_value) ==
    \/ current_image = None
    \/ images = <<>>
    \/ zoom_value = 0
    \/ PyIndex(images, current_index) = [type |-> "raise"]
    \/ ~PyIndex(images, current_index).ok

CropErrors == {"No image loaded", "Error cropping image"}

\* C22: crop failure is local.  Every call of process_crop_click returns (it
\* ends in one of its three outcomes, none of them an exception); when the
\* crop cannot be produced it returns no crop and an error status; and the
\* image list, current index, stored zoom, crop target and selection set are
\* as before the call.
C22_CropFailureIsLocal ==
    [][click' # click
       => /\ click'.outcome \in CropErrors \cup {"Cropped"}
          /\ CannotCrop(click'.args.zoom_value)
             => (cropped_image' = None /\ crop_status' \in CropErrors)
          /\ cropped_image' = None => crop_status' \in CropErrors
          /\ UNCHANGED <<images, current_index, current_zoom, current_crop_width,
                         current_crop_height, selected_for_deletion>>]_vars

\* A click with a non-zero zoom on the file that cannot be decoded has failed
\* with no crop, and the session still holds both images.
C22_Witness_UndecodableClicked ==
    /\ click.outcome = "Error cropping image"
    /\ cropped_image = None
    /\ Len(images) = 2
    /\ ~PyIndex(images, current_index).ok
    /\ click.args.zoom_value # 0

\* C28: index in range.  After any sequence of loads, gallery selections with
\* any integer index, and navigation steps, a non-empty image list has
\* 0 <= current_index < len(images).
C28_IndexInRange ==
    images # <<>> => (0 <= current_index /\ current_index < Len(images))

\* C30: single authoritative crop target.  The dimensions a process_crop_click
\* call resamples to are the session's stored crop target at the time of the
\* click.
C30_SingleCropTarget ==
    [][(click' # click /\ "locals" \in DOMAIN click')
       => <<click'.locals.base_crop_width, click'.locals.base_crop_height>>
            = <<current_crop_width, current_crop_height>>]_vars

----------------------------------------------------------------------------
(* Properties of the output directory *)

\* C2: saved crops get a unique name.  After any sequence of saves and
\* deletions, the file name save_crop derives for the crop at hand is not the
\* name of a file already in the output directory.
C2_DerivedNameIsUnused ==
    (cropped_image # None /\ PyIndex(images, current_index) # [type |-> "raise"])
    => SaveLocals(PyIndex(images, current_index)).output_filename \notin Listdir

\* C16: toggle involution.  A toggle on a saved crop of the output gallery
\* adds it to the selection if it was absent and removes it if it was present,
\* changing no other member and not the store; toggling the same crop again
\* gives back the selection the first toggle started from.
C16_ToggleInvolution ==
    [][\A index \in SelectGalleryIndexes :
          (/\ toggle_file_selection(index)
           /\ 0 <= index /\ index < Len(get_output_gallery))
          => LET id == get_output_gallery[index + 1]
             IN  /\ selected_for_deletion' =
                        IF id \in selected_for_deletion
                        THEN selected_for_deletion \ {id}
                        ELSE selected_for_deletion \cup {id}
                 /\ UNCHANGED output_dir
                 /\ ToggleMember(selected_for_deletion',
                                 get_output_gallery'[index + 1])
                        = selected_for_deletion]_vars

\* A saved crop was deselected by a toggle, after a toggle or a select-all had
\* selected it, and the selection is empty again.
C16_Witness_ToggledBack ==
    /\ delete_status = [text |-> "Deselected"]
    /\ selected_for_deletion = {}
    /\ Listdir # {}

\* C17: selection cleared after batch delete.  After every
\* delete_selected_crops call, whether every removal succeeds, some selected
\* files are already missing, or a removal fails, the selection is empty.
C17_SelectionClearedAfterDelete ==
    [][delete_selected_crops => selected_for_deletion' = {}]_vars

\* C18: batch delete continues past failures.  When the removal of one
\* selected file fails in a delete_selected_crops call, every other selected
\* file is removed all the same: of the selected files at most the failing one
\* is still in the output directory afterwards.
C18_DeleteContinuesPastFailure ==
    [][(delete_selected_crops /\ delete_status'.text = "Error deleting files")
       => Cardinality(selected_for_deletion \cap DOMAIN output_dir') <= 1]_vars

\* C19: select_all replaces the selection.  After select_all_files the
\* selection is exactly the set of saved crops in the output directory,
\* whatever was selected before, and the directory is as it was.
C19_SelectAllReplaces ==
    [][select_all_files
       => /\ selected_for_deletion' = DOMAIN output_dir'
          /\ UNCHANGED output_dir]_vars

\* After some saved crops were deleted, a select-all has selected exactly the
\* crops that are left.
C19_Witness_AllOfTheRestSelected ==
    /\ delete_status.text = "Selected all"
    /\ Listdir # {}
    /\ Cardinality(Listdir) < SavedCrops
    /\ selected_for_deletion = Listdir

----------------------------------------------------------------------------
(* Properties of the selection set *)

\* C29: no stale selections.  In every reachable state, every path in the
\* selection set names a file that exists in the output directory.
C29_NoStaleSelections == selected_for_deletion \subseteq Listdir

----------------------------------------------------------------------------

(* Properties of the utilities, read off the log of the last run *)

ScanOps == {"OK", "quarantined"}
ConvertOps == {"converted", "skipped", "error"}

\* C23: scan before normalization.  In a run of process_uploaded_dataset or
\* download_all_crops_with_utilities with both utilities enabled, every
\* file the corruption scan looked at was looked at before the conversion
\* touched any file, and the conversion touched no file the scan quarantined.
C23_ScanBeforeNormalization ==
    (utilities.convert_rgb /\ utilities.check_corruption)
    => \A i, j \in DOMAIN utilities.log :
          utilities.log[i].op \in ConvertOps
          => /\ utilities.log[j].op \in ScanOps => j < i
             /\ utilities.log[j].op = "quarantined"
                => utilities.log[j].file # utilities.log[i].file

\* A dataset run with both utilities enabled has quarantined one file and then
\* converted another.
C23_Witness_QuarantinedThenConverted ==
    /\ utilities.run = "dataset"
    /\ utilities.convert_rgb /\ utilities.check_corruption
    /\ \E i, j \in DOMAIN utilities.log :
          /\ i < j
          /\ utilities.log[i].op = "quarantined"
          /\ utilities.log[j].op = "converted"

====
